---- MODULE Spec2Model ----
(***************************************************************************)
(* A model of warshmellow-python-toys:                                     *)
(*   src/peaktraffic.py  class Graph (adjacency map, degeneracy ordering,  *)
(*                       Bron-Kerbosch without pivoting) and main's log    *)
(*                       ingestion;                                        *)
(*   src/levdist.py      the friends network of a word.                    *)
(*                                                                         *)
(* Five families of behaviours share the variables below:                  *)
(*   Spec         a Graph object driven through add_pair/neighbors/degree  *)
(*   SpecCliques  max_cliques running step by step on a well-formed graph  *)
(*   SpecOrder    degeneracy_ordering on a well-formed graph               *)
(*   SpecMain     main's reading of log lines and loading of the graph     *)
(*   SpecNet      network / network_size on a test word and a corpus       *)
(***************************************************************************)
EXTENDS Integers, Sequences, FiniteSets

VARIABLES
    adjacency_map,  \* Graph._adjacency_map: vertex -> set of vertices
    calls,          \* history: the <<u, v>> argument pairs add_pair has received
    last,           \* history: the last Graph operation called and its arguments
    result,         \* what the last neighbors/degree call returned or raised
    pc,             \* position of the running function
    order,          \* max_cliques: degeneracy_ordered_vertices
    idx,            \* max_cliques: position of the outer loop in order
    possible,       \* max_cliques: local possible
    excluded,       \* max_cliques: local excluded
    stack,          \* the active _bron_kerbosch calls, innermost last
    cliques,        \* max_cliques: the list cliques
    lines,          \* main: the lines of the input file read so far
    possible_pairs, \* main: possible_pairs
    pairs,          \* main: pairs
    pairs_iter,     \* main: the pairs the loading loop has still to visit
    test_word,      \* network: test_word
    corpus,         \* network: corpus
    connected_component, \* network: connected_component
    matches,        \* network: matches
    reduced_corpus, \* network: reduced_corpus
    size            \* network_size: the returned length

graphVars  == <<adjacency_map, calls, last, result>>
cliqueVars == <<order, idx, possible, excluded, stack, cliques>>
mainVars   == <<lines, possible_pairs, pairs, pairs_iter>>
netVars    == <<test_word, corpus, connected_component, matches, reduced_corpus, size>>
vars == <<adjacency_map, calls, last, result, pc, order, idx, possible, excluded,
          stack, cliques, lines, possible_pairs, pairs, pairs_iter,
          test_word, corpus, connected_component, matches, reduced_corpus, size>>

(***************************************************************************)
(* Bounds                                                                  *)
(***************************************************************************)
\* vertices a Graph object may be given through add_pair
NumApiVertices == 3
\* add_pair calls with distinct arguments recorded in one behaviour of Spec
MaxCalls == 4

ApiVertices == 1..NumApiVertices

NoResult == [status |-> "none", value |-> 0]
NoCall   == [op |-> "none", u |-> 0, v |-> 0]
EmptyMap == [k \in {} |-> {}]

\* the values the variables of the other families keep while one family runs
IdleCliques ==
    /\ order = <<>> /\ idx = 0 /\ possible = {} /\ excluded = {}
    /\ stack = <<>> /\ cliques = <<>>
IdleMain ==
    /\ lines = <<>> /\ possible_pairs = {} /\ pairs = {}
    /\ pairs_iter = {}
IdleNet ==
    /\ test_word = <<>> /\ corpus = {} /\ connected_component = {}
    /\ matches = {} /\ reduced_corpus = {} /\ size = 0
IdleApi ==
    /\ calls = {} /\ last = NoCall /\ result = NoResult

(***************************************************************************)
(* class Graph: add_pair, neighbors, degree                                *)
(***************************************************************************)
\* one half of add_pair: "if u in map: map[u].add(v) else: map[u] = {v}"
AddHalf(m, u, v) ==
    [k \in DOMAIN m \cup {u} |->
        IF k = u THEN (IF u \in DOMAIN m THEN m[u] \cup {v} ELSE {v})
                 ELSE m[k]]

\* a plausible slip: the second half of add_pair is left out
AddPairOneWay(m, u, v) == AddHalf(m, u, v)

\* Graph.add_pair(u, v): the adjacency map after the call
AddPairMap(m, u, v) == AddHalf(AddHalf(m, u, v), v, u)

\* a plausible slip: a missing key reads as an empty neighbour set
NeighborsOrEmpty(m, key) ==
    IF key \in DOMAIN m THEN [status |-> "ok", value |-> m[key]]
                        ELSE [status |-> "ok", value |-> {}]

\* Graph.neighbors(key): frozenset(self._adjacency_map[key]), KeyError when absent
Neighbors(m, key) ==
    IF key \in DOMAIN m THEN [status |-> "ok", value |-> m[key]]
                        ELSE [status |-> "KeyError", value |-> 0]

\* Graph.degree(key): len(self.neighbors(key)); the KeyError propagates
Degree(m, key) ==
    LET n == Neighbors(m, key)
    IN  IF n.status = "ok" THEN [status |-> "ok", value |-> Cardinality(n.value)]
                           ELSE n

\* Graph.__init__
Init ==
    /\ adjacency_map = EmptyMap
    /\ IdleApi
    /\ pc = "api"
    /\ IdleCliques /\ IdleMain /\ IdleNet

AddPair(u, v) ==
    /\ pc = "api"
    /\ Cardinality(calls \cup {<<u, v>>}) <= MaxCalls
    /\ adjacency_map' = AddPairMap(adjacency_map, u, v)
    /\ calls' = calls \cup {<<u, v>>}
    /\ last' = [op |-> "add_pair", u |-> u, v |-> v]
    /\ result' = NoResult
    /\ UNCHANGED <<pc, cliqueVars, mainVars, netVars>>

NeighborsCall(key) ==
    /\ pc = "api"
    /\ result' = Neighbors(adjacency_map, key)
    /\ last' = [op |-> "neighbors", u |-> key, v |-> 0]
    /\ UNCHANGED <<adjacency_map, calls, pc, cliqueVars, mainVars, netVars>>

DegreeCall(key) ==
    /\ pc = "api"
    /\ result' = Degree(adjacency_map, key)
    /\ last' = [op |-> "degree", u |-> key, v |-> 0]
    /\ UNCHANGED <<adjacency_map, calls, pc, cliqueVars, mainVars, netVars>>

Next ==
    \/ \E u \in ApiVertices, v \in ApiVertices : AddPair(u, v)
    \/ \E key \in ApiVertices : NeighborsCall(key)
    \/ \E key \in ApiVertices : DegreeCall(key)

Spec == Init /\ [][Next]_vars

(***************************************************************************)
(* Claims about the Graph object (specification Spec)                      *)
(***************************************************************************)
\* the vertices that were an argument of some add_pair call
Arguments == {c[1] : c \in calls} \cup {c[2] : c \in calls}
\* the vertices some add_pair call paired with key, in either argument position
PairedWith(key) ==
    {c[2] : c \in {d \in calls : d[1] = key}} \cup
    {c[1] : c \in {d \in calls : d[2] = key}}
DistinctArguments(cs) == \A c \in cs : c[1] # c[2]
Symmetric(m) ==
    \A u \in DOMAIN m : \A v \in m[u] : v \in DOMAIN m /\ u \in m[v]
Irreflexive(m) == \A u \in DOMAIN m : u \notin m[u]

\* C4: after any sequence of add_pair calls, including calls whose two
\* arguments are the same vertex, no vertex is in its own neighbour set.
C4_NoSelfNeighbour == Irreflexive(adjacency_map)

\* what the last call answered, against the history of add_pair calls
QueryAnswersHistory ==
    /\ last.op \in {"neighbors", "degree"} =>
          /\ result.status = "KeyError" <=> last.u \notin Arguments
          /\ result.status \in {"ok", "KeyError"}
    /\ (last.op = "neighbors" /\ last.u \in Arguments) =>
          result.value = PairedWith(last.u)
    /\ (last.op = "degree" /\ last.u \in Arguments) =>
          result.value = Cardinality(PairedWith(last.u))
QueryKeepsMap ==
    (last'.op \in {"neighbors", "degree"}) => adjacency_map' = adjacency_map

\* C5: neighbors(v) and degree(v) raise KeyError exactly when v was never an
\* argument of add_pair, and then leave the adjacency map as it was; otherwise
\* neighbors(v) is the set of vertices paired with v so far and degree(v) its
\* size.
C5_QueriesFollowHistory == []QueryAnswersHistory /\ [][QueryKeepsMap]_vars

\* a query failed on a graph that already holds vertices
C5_Witness_FailedQuery ==
    /\ last.op = "degree" /\ result.status = "KeyError" /\ calls # {}

RepeatKeepsMap ==
    (/\ last'.op = "add_pair"
     /\ DistinctArguments(calls')
     /\ \/ <<last'.u, last'.v>> \in calls
        \/ <<last'.v, last'.u>> \in calls)
    => adjacency_map' = adjacency_map

\* C7: after add_pair calls with u # v the adjacency relation is symmetric, and
\* repeating a call already made, in either argument order, leaves the
\* adjacency map unchanged.
C7_SymmetricAndIdempotent ==
    /\ [](DistinctArguments(calls) => Symmetric(adjacency_map))
    /\ [][RepeatKeepsMap]_vars

\* add_pair(1, 2) was repeated as add_pair(2, 1) after another pair was added
C7_Witness_Repeated ==
    /\ {<<1, 2>>, <<2, 1>>, <<2, 3>>} \subseteq calls
    /\ DistinctArguments(calls)
    /\ last = [op |-> "add_pair", u |-> 2, v |-> 1]
    /\ adjacency_map[2] = {1, 3}

(***************************************************************************)
(* Graph.degeneracy_ordering, Graph.max_cliques, Graph._bron_kerbosch      *)
(***************************************************************************)
\* vertices of the graphs max_cliques is run on
MaxVertices == 4

GraphEdges(n) == {e \in (1..n) \X (1..n) : e[1] < e[2]}
\* the adjacency map of the undirected graph on 1..n with edge set E; a vertex
\* without an edge is a key with an empty neighbour set
GraphOf(n, E) ==
    [v \in 1..n |-> {w \in 1..n : <<v, w>> \in E \/ <<w, v>> \in E}]

MinOf(S) == CHOOSE x \in S : \A y \in S : x <= y

RECURSIVE SortedByDegree(_, _)
\* sorted(S, key=self.degree) for an iterable S whose iteration order is
\* arbitrary (the keys of a dict): every arrangement of S with non-decreasing
\* degree
SortedByDegree(m, S) ==
    IF S = {} THEN {<<>>}
    ELSE LET least == MinOf({Degree(m, x).value : x \in S})
         IN  UNION {{<<v>> \o s : s \in SortedByDegree(m, S \ {v})} :
                      v \in {x \in S : Degree(m, x).value = least}}

\* Graph.degeneracy_ordering(): sorted(self._adjacency_map, key=self.degree)
DegeneracyOrdering(m) == SortedByDegree(m, DOMAIN m)

\* a plausible slip: the candidates are not narrowed to the neighbours of v
OuterFrameWide(p, x, v) ==
    [acc |-> {v}, possible |-> p \ {v},
     excluded |-> x \cap Neighbors(adjacency_map, v).value,
     iter |-> {}, v |-> 0]

\* max_cliques, lines 85-90: the arguments of the top-level call
OuterFrame(p, x, v) ==
    [acc |-> {} \cup {v},
     possible |-> p \cap Neighbors(adjacency_map, v).value,
     excluded |-> x \cap Neighbors(adjacency_map, v).value,
     iter |-> {}, v |-> 0]

\* a plausible slip: the excluded set is passed down as it is
InnerFrameAllExcluded(f, v) ==
    [acc |-> f.acc \cup {v},
     possible |-> f.possible \cap Neighbors(adjacency_map, v).value,
     excluded |-> f.excluded,
     iter |-> {}, v |-> 0]

\* _bron_kerbosch, lines 104-109: the arguments of the recursive call
InnerFrame(f, v) ==
    [acc |-> f.acc \cup {v},
     possible |-> f.possible \cap Neighbors(adjacency_map, v).value,
     excluded |-> f.excluded \cap Neighbors(adjacency_map, v).value,
     iter |-> {}, v |-> 0]

\* a plausible slip: only the candidates are tested
ReportsWhenNoCandidate(f) == Cardinality(f.possible) = 0

\* _bron_kerbosch, line 101
Reports(f) == Cardinality(f.possible) = 0 /\ Cardinality(f.excluded) = 0

\* a plausible slip: the visited vertex is not excluded
OuterAfterKeepsExcluded(p, x, v) == [possible |-> p \ {v}, excluded |-> x]

\* max_cliques, lines 91-92
OuterAfter(p, x, v) == [possible |-> p \ {v}, excluded |-> x \cup {v}]

\* _bron_kerbosch, lines 110-111
InnerAfter(f) ==
    [f EXCEPT !.possible = f.possible \ {f.v},
              !.excluded = f.excluded \cup {f.v},
              !.v = 0]

WellFormedGraph(n) ==
    /\ \E k \in 0..n : \E E \in SUBSET GraphEdges(k) :
          adjacency_map = GraphOf(k, E)
    /\ IdleApi /\ IdleCliques /\ IdleMain /\ IdleNet

InitCliques == WellFormedGraph(MaxVertices) /\ pc = "start"

Depth == Len(stack)
Top == stack[Depth]

\* max_cliques, lines 79-83
MaxCliquesStart ==
    /\ pc = "start"
    /\ possible' = DOMAIN adjacency_map
    /\ excluded' = {}
    /\ cliques' = <<>>
    /\ order' \in DegeneracyOrdering(adjacency_map)
    /\ idx' = 1
    /\ pc' = "outer"
    /\ UNCHANGED <<graphVars, stack, mainVars, netVars>>

\* _bron_kerbosch, lines 101-103, run by a call with frame f: acc is reported
\* when nothing can extend it, and the loop gets an iterator over the set
\* possible as it is at entry
Entered(f) == [f EXCEPT !.iter = f.possible]
ReportedBy(f) == IF Reports(f) THEN Append(cliques, f.acc) ELSE cliques

\* max_cliques, lines 84-90: the next vertex of the ordering and the call of
\* _bron_kerbosch, which runs up to its loop
OuterCall ==
    /\ pc = "outer" /\ Depth = 0 /\ idx <= Len(order)
    /\ LET f == OuterFrame(possible, excluded, order[idx])
       IN  /\ stack' = <<Entered(f)>>
           /\ cliques' = ReportedBy(f)
    /\ UNCHANGED <<graphVars, pc, order, idx, possible, excluded,
                   mainVars, netVars>>

\* _bron_kerbosch, lines 103-109: the iterator yields some remaining vertex
\* (a frozenset iterates in no fixed order), and the recursive call, which
\* runs up to its loop
InnerCall ==
    /\ pc = "outer" /\ Depth > 0
    /\ \E v \in Top.iter :
          LET f == InnerFrame(Top, v)
          IN  /\ stack' = Append(
                     [stack EXCEPT ![Depth] =
                         [Top EXCEPT !.iter = Top.iter \ {v}, !.v = v]],
                     Entered(f))
              /\ cliques' = ReportedBy(f)
    /\ UNCHANGED <<graphVars, pc, order, idx, possible, excluded,
                   mainVars, netVars>>

\* the iterator is exhausted and the call returns into _bron_kerbosch, which
\* runs lines 110-111
InnerReturn ==
    /\ pc = "outer" /\ Depth > 1 /\ Top.iter = {}
    /\ stack' = [SubSeq(stack, 1, Depth - 1) EXCEPT
                    ![Depth - 1] = InnerAfter(stack[Depth - 1])]
    /\ UNCHANGED <<graphVars, pc, order, idx, possible, excluded, cliques,
                   mainVars, netVars>>

\* the iterator is exhausted and the call returns into max_cliques, which runs
\* lines 91-92
OuterReturn ==
    /\ pc = "outer" /\ Depth = 1 /\ Top.iter = {}
    /\ stack' = <<>>
    /\ possible' = OuterAfter(possible, excluded, order[idx]).possible
    /\ excluded' = OuterAfter(possible, excluded, order[idx]).excluded
    /\ idx' = idx + 1
    /\ UNCHANGED <<graphVars, pc, order, cliques, mainVars, netVars>>

\* max_cliques, line 93
MaxCliquesReturn ==
    /\ pc = "outer" /\ Depth = 0 /\ idx > Len(order)
    /\ pc' = "done"
    /\ UNCHANGED <<graphVars, cliqueVars, mainVars, netVars>>

NextCliques ==
    \/ MaxCliquesStart
    \/ OuterCall
    \/ InnerCall
    \/ InnerReturn
    \/ OuterReturn
    \/ MaxCliquesReturn

SpecCliques == InitCliques /\ [][NextCliques]_vars

\* the interpreter runs max_cliques to its end: no step waits on anything
FairSpecCliques == SpecCliques /\ WF_vars(NextCliques)

(***************************************************************************)
(* Graph.degeneracy_ordering on its own (specification SpecOrder)          *)
(***************************************************************************)
\* vertices of the graphs degeneracy_ordering is run on
NumOrderVertices == 5

InitOrder == WellFormedGraph(NumOrderVertices) /\ pc = "order"

DegeneracyOrderingCall ==
    /\ pc = "order"
    /\ order' \in DegeneracyOrdering(adjacency_map)
    /\ pc' = "ordered"
    /\ UNCHANGED <<graphVars, idx, possible, excluded, stack, cliques,
                   mainVars, netVars>>

NextOrder == DegeneracyOrderingCall

SpecOrder == InitOrder /\ [][NextOrder]_vars

\* the vertices not yet placed before position i of sequence s
NotYetPlaced(s, i) == {s[j] : j \in i..Len(s)}
\* the degree of v counted against the vertices of R only
DegreeWithin(m, v, R) == Cardinality(m[v] \cap R)
GreedyPeeling(m, s) ==
    /\ Len(s) = Cardinality(DOMAIN m)
    /\ {s[i] : i \in 1..Len(s)} = DOMAIN m
    /\ \A i \in 1..Len(s) :
          \A w \in NotYetPlaced(s, i) :
              DegreeWithin(m, s[i], NotYetPlaced(s, i))
                  <= DegreeWithin(m, w, NotYetPlaced(s, i))

\* C3: degeneracy_ordering returns every vertex exactly once, in a greedy
\* min-degree peeling order: the vertex at each position has the fewest
\* neighbours among the vertices not yet placed, counting only neighbours that
\* are themselves not yet placed.
C3_OrderingIsGreedyPeeling ==
    pc = "ordered" => GreedyPeeling(adjacency_map, order)

(***************************************************************************)
(* Claims about max_cliques (specifications SpecCliques, FairSpecCliques)  *)
(***************************************************************************)
IsClique(m, S) == \A u \in S : \A v \in S : u # v => v \in m[u]
NoExtension(m, S) == \A w \in DOMAIN m \ S : ~ (\A u \in S : w \in m[u])
MaximalCliques(m) ==
    {S \in SUBSET DOMAIN m : S # {} /\ IsClique(m, S) /\ NoExtension(m, S)}
MaxOf(S) == CHOOSE x \in S : \A y \in S : x >= y
LargestCliqueSize(m) ==
    MaxOf({Cardinality(S) : S \in {T \in SUBSET DOMAIN m : IsClique(m, T)}})
Reported == {cliques[i] : i \in 1..Len(cliques)}
WellFormed(m) == Symmetric(m) /\ Irreflexive(m)

\* C1: on a symmetric, irreflexive graph, whatever the order of equal-degree
\* vertices, the list max_cliques returns holds every maximal clique exactly
\* once: none is missing and no set appears twice.
C1_EveryMaximalCliqueOnce ==
    (pc = "done" /\ WellFormed(adjacency_map)) =>
        /\ Reported = MaximalCliques(adjacency_map)
        /\ \A i \in 1..Len(cliques) : \A j \in 1..Len(cliques) :
              i # j => cliques[i] # cliques[j]

\* max_cliques returned on a triangle with a vertex that has no neighbours
C1_Witness_TriangleAndIsolated ==
    /\ pc = "done"
    /\ Len(cliques) = 2
    /\ \E i \in 1..Len(cliques) : Cardinality(cliques[i]) = 3
    /\ \E i \in 1..Len(cliques) : Cardinality(cliques[i]) = 1

\* C2: on a symmetric, irreflexive graph, every set max_cliques appends to its
\* result is a maximal clique: its members are pairwise neighbours and no
\* vertex outside it is adjacent to all of them.
C2_ReportedAreMaximalCliques ==
    WellFormed(adjacency_map) =>
        \A i \in 1..Len(cliques) :
            /\ IsClique(adjacency_map, cliques[i])
            /\ NoExtension(adjacency_map, cliques[i])

\* two overlapping cliques have been appended while the search is still running
C2_Witness_TwoReported ==
    /\ Depth > 0
    /\ Len(cliques) >= 2
    /\ cliques[1] \cap cliques[2] # {}
    /\ Cardinality(cliques[1]) >= 2

FrameInvariant(m, f) ==
    \A w \in f.possible \cup f.excluded : \A r \in f.acc : w \in m[r]

\* C8: on a symmetric, irreflexive graph, at entry to every _bron_kerbosch call
\* and after every iteration of its loop, every vertex of possible or excluded
\* is adjacent to every vertex of acc.
C8_FrameInvariant ==
    WellFormed(adjacency_map) =>
        \A k \in 1..Depth : FrameInvariant(adjacency_map, stack[k])

\* a nested call whose candidates and excluded vertices are both non-empty
C8_Witness_NestedFrame ==
    /\ Depth >= 2
    /\ Top.possible # {} /\ Top.excluded # {}
    /\ stack[1].excluded # {}

\* C6: on a symmetric, irreflexive graph, the number of nested _bron_kerbosch
\* calls never exceeds the size of the largest clique (hence the number of
\* vertices), and max_cliques terminates and returns.
C6_DepthBoundedAndTerminates ==
    /\ [](WellFormed(adjacency_map) =>
             /\ Depth <= LargestCliqueSize(adjacency_map)
             /\ Depth <= Cardinality(DOMAIN adjacency_map))
    /\ <>(pc = "done")

\* the recursion is as deep as the largest clique, which is not the whole graph
C6_Witness_DeepestCall ==
    /\ Depth = 3
    /\ LargestCliqueSize(adjacency_map) = 3
    /\ Cardinality(DOMAIN adjacency_map) = 4

(***************************************************************************)
(* peaktraffic.main: reading the log and loading the graph                 *)
(***************************************************************************)
\* e-mail addresses that appear in the log
NumAddresses == 3
\* lines of the log
MaxLines == 4

Addresses == 1..NumAddresses
\* a line is its tab-separated fields: timestamp, sender, recipient
LogLines == {<<0, s, r>> : s \in Addresses, r \in Addresses}

\* main, lines 129-130: parsed_line[1], parsed_line[2]
ParseLine(line) == [sender |-> line[2], recipient |-> line[3]]

\* a plausible slip: the pair is looked up in the direction it was sent
ReadStepSameDirection(pp, prs, sender, recipient) ==
    IF <<sender, recipient>> \in pp
    THEN [possible_pairs |-> pp, pairs |-> prs \cup {{sender, recipient}}]
    ELSE [possible_pairs |-> pp \cup {<<sender, recipient>>}, pairs |-> prs]

\* main, lines 135-138
ReadStep(pp, prs, sender, recipient) ==
    IF <<recipient, sender>> \in pp
    THEN [possible_pairs |-> pp, pairs |-> prs \cup {{sender, recipient}}]
    ELSE [possible_pairs |-> pp \cup {<<sender, recipient>>}, pairs |-> prs]

\* main, lines 119-124
InitMain ==
    /\ lines = <<>>
    /\ possible_pairs = {} /\ pairs = {} /\ pairs_iter = {}
    /\ adjacency_map = EmptyMap
    /\ pc = "read"
    /\ IdleApi /\ IdleCliques /\ IdleNet

\* main, lines 127-138: the file yields one more line
ReadLine ==
    /\ pc = "read" /\ Len(lines) < MaxLines
    /\ \E line \in LogLines :
          LET parsed == ParseLine(line)
              after  == ReadStep(possible_pairs, pairs, parsed.sender,
                                 parsed.recipient)
          IN  /\ lines' = Append(lines, line)
              /\ possible_pairs' = after.possible_pairs
              /\ pairs' = after.pairs
    /\ UNCHANGED <<graphVars, pc, cliqueVars, pairs_iter, netVars>>

\* main, line 141: the file is exhausted; the loading loop starts on pairs
StartLoading ==
    /\ pc = "read"
    /\ pairs_iter' = pairs
    /\ pc' = "load"
    /\ UNCHANGED <<graphVars, cliqueVars, lines, possible_pairs, pairs, netVars>>

\* main, lines 141-143: the set yields some remaining pair, which unpacks into
\* u, v in either order
LoadPair ==
    /\ pc = "load"
    /\ \E pair \in pairs_iter :
          /\ Cardinality(pair) = 2
          /\ \E u \in pair : \E v \in pair \ {u} :
                adjacency_map' = AddPairMap(adjacency_map, u, v)
          /\ pairs_iter' = pairs_iter \ {pair}
    /\ UNCHANGED <<calls, last, result, pc, cliqueVars, lines, possible_pairs,
                   pairs, netVars>>

\* main, line 142: a pair with one member (a sender writing to itself) does
\* not unpack into u, v
LoadPairFails ==
    /\ pc = "load"
    /\ \E pair \in pairs_iter : Cardinality(pair) # 2
    /\ pc' = "ValueError"
    /\ UNCHANGED <<graphVars, cliqueVars, mainVars, netVars>>

\* main, line 145: the loading loop is over
LoadDone ==
    /\ pc = "load" /\ pairs_iter = {}
    /\ pc' = "loaded"
    /\ UNCHANGED <<graphVars, cliqueVars, mainVars, netVars>>

NextMain ==
    \/ ReadLine
    \/ StartLoading
    \/ LoadPair
    \/ LoadPairFails
    \/ LoadDone

SpecMain == InitMain /\ [][NextMain]_vars

HasEdge(m, a, b) == a \in DOMAIN m /\ b \in m[a]
Sent(a, b) ==
    \E i \in 1..Len(lines) : lines[i][2] = a /\ lines[i][3] = b
NoSelfAddressed == \A i \in 1..Len(lines) : lines[i][2] # lines[i][3]

\* C9: for log lines with sender # recipient, once main has processed them all
\* the graph has an edge between a and b exactly when some line was sent from
\* a to b and some line from b to a, whatever their order and multiplicity.
C9_EdgeIffMutual ==
    (pc = "loaded" /\ NoSelfAddressed) =>
        \A a \in Addresses : \A b \in Addresses :
            HasEdge(adjacency_map, a, b) <=> (Sent(a, b) /\ Sent(b, a))

\* two mutual pairs were loaded from four lines in which each answer comes
\* after the other pair's first message
C9_Witness_TwoMutualPairs ==
    /\ pc = "loaded" /\ NoSelfAddressed
    /\ Len(lines) = 4
    /\ Cardinality(pairs) = 2
    /\ lines[1][2] # lines[2][3]

(***************************************************************************)
(* levdist: dist_one_word_variants, network, network_size                  *)
(***************************************************************************)
\* letters of a word
MaxWordLen == 2
\* words of the corpus
MaxCorpus == 2

\* string.ascii_lowercase, cut down to two letters
Letters == {"a", "b"}
\* a character that str.lower() changes
Capitals == {"A"}
LowercaseWords(n) == UNION {[1..k -> Letters] : k \in 0..n}
\* the lowercase words and the capitalised ones, of at most MaxWordLen letters
Words ==
    LowercaseWords(MaxWordLen) \cup
    {<<c>> \o w : c \in Capitals, w \in LowercaseWords(MaxWordLen - 1)}

RECURSIVE SubsetsUpTo(_, _)
\* the subsets of S with at most k members
SubsetsUpTo(S, k) ==
    IF k = 0 THEN {{}}
    ELSE LET smaller == SubsetsUpTo(S, k - 1)
         IN  smaller \cup {T \cup {x} : T \in smaller, x \in S}

\* str.lower()
LowerChar(c) == IF c = "A" THEN "a" ELSE c
Lower(w) == [i \in 1..Len(w) |-> LowerChar(w[i])]

\* a plausible slip: the removal of a letter is left out
VariantsWithoutRemoval(input_word) ==
    LET word == Lower(input_word)
        n == Len(word)
    IN  UNION {
          UNION {
            IF c # word[i]
            THEN {[word EXCEPT ![i] = c],
                  SubSeq(word, 1, i - 1) \o <<c>> \o SubSeq(word, i, n)}
            ELSE {} : c \in Letters}
          : i \in 1..n}
        \cup {word \o <<c>> : c \in Letters}

\* dist_one_word_variants(input_word): everything the generator yields
DistOneWordVariants(input_word) ==
    LET word == Lower(input_word)
        n == Len(word)
    IN  UNION {
          UNION {
            IF c # word[i]
            THEN {[word EXCEPT ![i] = c],
                  SubSeq(word, 1, i - 1) \o <<c>> \o SubSeq(word, i, n)}
            ELSE {} : c \in Letters}
          \cup {SubSeq(word, 1, i - 1) \o SubSeq(word, i + 1, n)}
          : i \in 1..n}
        \cup {word \o <<c>> : c \in Letters}

\* the arguments of network(test_word, corpus)
InitNet ==
    /\ test_word \in Words
    /\ corpus \in SubsetsUpTo(Words, MaxCorpus)
    /\ connected_component = {} /\ matches = {} /\ reduced_corpus = {}
    /\ size = 0
    /\ pc = "call"
    /\ adjacency_map = EmptyMap
    /\ IdleApi /\ IdleCliques /\ IdleMain

\* network, lines 53-55
NetworkStart ==
    /\ pc = "call"
    /\ connected_component' = {test_word}
    /\ matches' = {test_word}
    /\ reduced_corpus' = corpus
    /\ pc' = "loop"
    /\ UNCHANGED <<graphVars, cliqueVars, mainVars, test_word, corpus, size>>

\* network, lines 57-65: one turn of the while loop
NetworkIterate ==
    /\ pc = "loop" /\ Cardinality(matches) > 0
    /\ LET found == {matched_word \in reduced_corpus :
                        \E word \in connected_component :
                            matched_word \in DistOneWordVariants(word)}
       IN  /\ matches' = found
           /\ reduced_corpus' = reduced_corpus \ found
           /\ connected_component' = connected_component \cup found
    /\ UNCHANGED <<graphVars, pc, cliqueVars, mainVars, test_word, corpus, size>>

\* network, lines 57 and 67, and network_size, line 76
NetworkReturn ==
    /\ pc = "loop" /\ Cardinality(matches) = 0
    /\ size' = Cardinality(connected_component)
    /\ pc' = "done"
    /\ UNCHANGED <<graphVars, cliqueVars, mainVars, test_word, corpus,
                   connected_component, matches, reduced_corpus>>

NextNet ==
    \/ NetworkStart
    \/ NetworkIterate
    \/ NetworkReturn

SpecNet == InitNet /\ [][NextNet]_vars

\* the interpreter runs network to its end: no step waits on anything
FairSpecNet == SpecNet /\ WF_vars(NextNet)

MinOf3(x, y, z) == MinOf({x, y, z})
RECURSIVE Levenshtein(_, _)
\* the Levenshtein distance of two words, by its textbook recurrence
Levenshtein(s, t) ==
    IF s = <<>> THEN Len(t)
    ELSE IF t = <<>> THEN Len(s)
    ELSE IF Head(s) = Head(t) THEN Levenshtein(Tail(s), Tail(t))
    ELSE 1 + MinOf3(Levenshtein(Tail(s), t), Levenshtein(s, Tail(t)),
                    Levenshtein(Tail(s), Tail(t)))

RECURSIVE FriendsClosure(_, _)
\* S with every word of C that a chain of distance-1 steps through C reaches
FriendsClosure(S, C) ==
    LET more == S \cup {w \in C : \E x \in S : Levenshtein(x, w) = 1}
    IN  IF more = S THEN S ELSE FriendsClosure(more, C)
FriendsNetwork(w, C) == FriendsClosure({w}, C)

IsLowercase(w) == \A i \in 1..Len(w) : w[i] \in Letters
NetworkIsFriendsNetwork ==
    /\ connected_component = FriendsNetwork(test_word, corpus)
    /\ size = Cardinality(FriendsNetwork(test_word, corpus))

\* C10 as stated: for every test word and every finite corpus, network returns
\* the friends network of test_word (test_word and every corpus word reachable
\* from it through corpus words at Levenshtein distance 1 from one another),
\* and network_size its size.
C10_NetworkIsFriendsNetwork == pc = "done" => NetworkIsFriendsNetwork

\* C10 amended: when test_word and the corpus words are made of lowercase
\* letters only, the loop of network terminates and network returns the
\* friends network of test_word, network_size its size; the loop terminates
\* for every input.
C10_LowercaseNetworkIsFriendsNetwork ==
    /\ []((/\ pc = "done"
           /\ IsLowercase(test_word)
           /\ \A w \in corpus : IsLowercase(w)) => NetworkIsFriendsNetwork)
    /\ <>(pc = "done")

\* network returned a chain of three lowercase words: the last one is no
\* variant of the test word, the loop found it in a later turn
C10_Witness_ChainOfFriends ==
    /\ pc = "done"
    /\ IsLowercase(test_word) /\ \A w \in corpus : IsLowercase(w)
    /\ size = 3
    /\ \E w \in corpus : Levenshtein(test_word, w) = 2

====
